---- MODULE Spec2Model ----
(***************************************************************************)
(* goshare: an interactive shell (main.go) that drives an IPFS connector   *)
(* (ipfs/ipfs_connector.go) through a command-pattern Invoker.             *)
(*                                                                         *)
(* A line of input is a sequence of characters.  The shell compares the    *)
(* raw line with "help" and "exit", and otherwise tokenizes it with        *)
(* strings.Fields and indexes the tokens.  The storage engine (kubo) is    *)
(* external: each of its calls either succeeds or fails, chosen            *)
(* nondeterministically.                                                   *)
(***************************************************************************)
EXTENDS Integers, Sequences, FiniteSets, TLC

VARIABLES
    pc,          \* position of main: Prompting, Dispatching, Reporting, Exited, Crashed
    command,     \* main's local `command`: the line read in this iteration
    eof,         \* stdin has reached end of input
    exitCode,    \* process exit status, -1 while the process runs
    connector,   \* ipfsConnector.Connector: nil or a *ipfs.Connector
    invoker,     \* the Invoker: its pending command
    engine,      \* package ipfs: loadPluginsOnce, injected plugins, nodes built
    err,         \* error returned to main / to the caller of ExecuteCommand
    output,      \* what this iteration printed
    executed,    \* the command whose Execute ran in this iteration
    setLog,      \* the commands handed to SetCommand since the last ExecuteCommand
    engineOps    \* engine entry points called in this iteration

vars == <<pc, command, eof, exitCode, connector, invoker, engine, err, output,
          executed, setLog, engineOps>>

(***************************************************************************)
(* Bounds of the model.                                                    *)
(***************************************************************************)
MaxTokens == 4      \* most tokens on an input line
MaxNodes  == 2      \* most engine nodes built in one run
MaxSets   == 2      \* most SetCommand calls in a row on an Invoker under test

(***************************************************************************)
(* Characters and words.                                                   *)
(***************************************************************************)
SP  == " "
TAB == "\t"

IsSpace(ch) == ch \in {SP, TAB}

sHelp   == <<"h", "e", "l", "p">>
sExit   == <<"e", "x", "i", "t">>
sConfig == <<"c", "o", "n", "f", "i", "g">>
sAdd    == <<"a", "d", "d">>
sGet    == <<"g", "e", "t">>
sP      == <<"p">>
sQ      == <<"q">>

\* first tokens and argument tokens of the lines the user types
Verbs == {sHelp, sExit, sConfig, sAdd, sGet, sP}
Args  == {sP, sQ}

\* leading and trailing whitespace put around the tokens
Pads == {<<<<>>, <<>>>>, <<<<SP>>, <<TAB>>>>}

RECURSIVE Join(_)
Join(toks) ==
    IF toks = <<>> THEN <<>>
    ELSE IF Len(toks) = 1 THEN toks[1]
    ELSE toks[1] \o <<SP>> \o Join(Tail(toks))

\* n tokens, each p
Surplus(n) == [i \in 1..n |-> sP]

\* a verb, up to two arguments drawn from Args, and surplus tokens after them
TokenSeqs ==
    {<<>>} \cup
    {<<v>> \o a \o Surplus(n) :
        v \in Verbs, a \in UNION {[1..k -> Args] : k \in 0..2}, n \in 0..(MaxTokens - 3)}

Lines == {p[1] \o Join(t) \o p[2] : p \in Pads, t \in TokenSeqs}

(***************************************************************************)
(* strings.Fields: the maximal runs of non-space characters.               *)
(***************************************************************************)
RECURSIVE FieldsFrom(_, _, _, _)
FieldsFrom(s, i, cur, acc) ==
    IF i > Len(s)
    THEN IF cur = <<>> THEN acc ELSE Append(acc, cur)
    ELSE IF IsSpace(s[i])
         THEN FieldsFrom(s, i + 1, <<>>, IF cur = <<>> THEN acc ELSE Append(acc, cur))
         ELSE FieldsFrom(s, i + 1, Append(cur, s[i]), acc)

Fields(s) == FieldsFrom(s, 1, <<>>, <<>>)

(***************************************************************************)
(* Values.                                                                 *)
(***************************************************************************)
NilConnector == [ptr |-> "nil"]
Connector(node, repository) == [ptr |-> "set", Node |-> node, RepoPath |-> repository]

NilCommand == [type |-> "nil"]
IpfsConfigCommand(repository) == [type |-> "config", repository |-> repository]
IpfsAddCommand(filePath) == [type |-> "add", filePath |-> filePath]
IpfsGetCommand(cid, outputPath) == [type |-> "get", cid |-> cid, outputPath |-> outputPath]

Commands ==
    {IpfsConfigCommand(r) : r \in Args} \cup {IpfsAddCommand(f) : f \in Args}
    \cup {IpfsGetCommand(c, o) : c \in Args, o \in Args}

NoErr            == "nil"
ErrCommandNotSet == "command not set"
ErrNotConfigured == "run config command first"
ErrPlugins       == "error loading plugins"
ErrRepo          == "failed to init repository"
ErrBuild         == "failed to build node"
ErrApi           == "failed to create ipfs api"
ErrLoadFile      == "failed to load file"
ErrAddFile       == "failed to add file"
ErrDecode        == "invalid cid"
ErrGet           == "unixfs get failed"
ErrWrite         == "write to output path failed"

\* one printed message: the stream or colour it goes to, and its text in pieces
Msg(kind, text) == [kind |-> kind, text |-> text]

(***************************************************************************)
(* Outcomes of the engine's calls during one command: the step that fails  *)
(* (or none).                                                              *)
(***************************************************************************)
Outcome(fail) == [fail |-> fail]

Outcomes(type) ==
    CASE type = "config" -> {Outcome(f) : f \in {"none", "plugins", "repo", "build", "api"}}
      [] type = "add"    -> {Outcome(f) : f \in {"none", "load", "add"}}
      [] type = "get"    -> {Outcome(f) : f \in {"none", "get", "write"}}
      [] OTHER           -> {Outcome("none")}

(***************************************************************************)
(* package ipfs.                                                           *)
(* engine.once:    loadPluginsOnce has run its function                    *)
(* engine.plugins: plugins were loaded and injected                        *)
(* engine.nodes:   nodes built by core.NewNode (none is ever closed)       *)
(***************************************************************************)
NewEngine == [once |-> FALSE, plugins |-> FALSE, nodes |-> 0]

\* the nodes that run: every node built, as no code path closes one
LiveNodes(eng) == 1..eng.nodes

\* sync.Once runs loadAndInjectPlugins on the first call only, whatever it returns
setupPlugins(eng, oc) ==
    IF eng.once
    THEN [err |-> NoErr, engine |-> eng]
    ELSE IF oc.fail = "plugins"
         THEN [err |-> ErrPlugins, engine |-> [eng EXCEPT !.once = TRUE]]
         ELSE [err |-> NoErr, engine |-> [eng EXCEPT !.once = TRUE, !.plugins = TRUE]]

initRepository(repository, oc) == IF oc.fail = "repo" THEN ErrRepo ELSE NoErr

buildNode(repository, eng, oc) ==
    IF oc.fail = "build"
    THEN [err |-> ErrBuild, node |-> 0, engine |-> eng]
    ELSE [err |-> NoErr, node |-> eng.nodes + 1,
          engine |-> [eng EXCEPT !.nodes = eng.nodes + 1]]

CreateNode(repository, eng, oc) ==
    LET sp == setupPlugins(eng, oc) IN
    IF sp.err # NoErr
    THEN [err |-> sp.err, connector |-> NilConnector, engine |-> sp.engine]
    ELSE IF initRepository(repository, oc) # NoErr
    THEN [err |-> initRepository(repository, oc), connector |-> NilConnector,
          engine |-> sp.engine]
    ELSE LET bn == buildNode(repository, sp.engine, oc) IN
    IF bn.err # NoErr
    THEN [err |-> bn.err, connector |-> NilConnector, engine |-> bn.engine]
    ELSE IF oc.fail = "api"
    THEN [err |-> ErrApi, connector |-> NilConnector, engine |-> bn.engine]
    ELSE [err |-> NoErr, connector |-> Connector(bn.node, repository),
          engine |-> bn.engine]

AddFile(c, filePath, oc) ==
    IF oc.fail = "load" THEN [err |-> ErrLoadFile, out |-> <<>>]
    ELSE IF oc.fail = "add" THEN [err |-> ErrAddFile, out |-> <<>>]
    ELSE [err |-> NoErr,
          out |-> <<Msg("green", <<"Added file with Cid: ", "cid of ">> \o filePath)>>]

\* cid.Decode: a function of the string; of the argument tokens only p is a
\* well-formed content identifier, and a failed decode yields cid.Undef
ValidCids == {sP}
UndefCid == <<>>

Decode(contentId) ==
    IF contentId \in ValidCids
    THEN [cid |-> contentId, err |-> NoErr]
    ELSE [cid |-> UndefCid, err |-> ErrDecode]

\* the error of cid.Decode is dropped; Get runs with whatever cid came back,
\* and what the engine makes of it is the engine's outcome
GetFile(c, contentId, outputPath, oc) ==
    LET cidFile == Decode(contentId).cid IN
    IF oc.fail = "get" THEN [err |-> ErrGet, out |-> <<>>]
    ELSE IF oc.fail = "write" THEN [err |-> ErrWrite, out |-> <<>>]
    ELSE [err |-> NoErr,
          out |-> <<Msg("green", <<"Successfully Wrote file to ">> \o outputPath)>>]

(***************************************************************************)
(* The commands.  Execute yields the error, the connector handle and the   *)
(* engine afterwards, what was printed and the engine entry points called. *)
(***************************************************************************)
ExecResult(e, conn, eng, out, ops) ==
    [err |-> e, connector |-> conn, engine |-> eng, out |-> out, ops |-> ops]

\* variant: a failed CreateNode is tried a second time
ConfigExecute_RetriesOnce(c, conn, eng, oc) ==
    LET r1 == CreateNode(c.repository, eng, oc)
        r2 == CreateNode(c.repository, r1.engine, Outcome("none"))
    IN  IF r1.err = NoErr
        THEN ExecResult(NoErr, r1.connector, r1.engine, <<>>, <<"CreateNode">>)
        ELSE ExecResult(r2.err, r2.connector, r2.engine, <<>>, <<"CreateNode", "CreateNode">>)

\* variant: the handle is assigned before the error is looked at
ConfigExecute_AssignsBeforeCheck(c, conn, eng, oc) ==
    LET r == CreateNode(c.repository, eng, oc) IN
    ExecResult(r.err, r.connector, r.engine, <<>>, <<"CreateNode">>)

ConfigExecute(c, conn, eng, oc) ==
    LET r == CreateNode(c.repository, eng, oc) IN
    IF r.err # NoErr
    THEN ExecResult(r.err, conn, r.engine, <<>>, <<"CreateNode">>)
    ELSE ExecResult(NoErr, r.connector, r.engine, <<>>, <<"CreateNode">>)

\* variant: a failed AddFile drops the session
AddExecute_DropsSessionOnFailure(c, conn, eng, oc) ==
    IF conn = NilConnector
    THEN ExecResult(ErrNotConfigured, conn, eng, <<>>, <<>>)
    ELSE LET r == AddFile(conn, c.filePath, oc) IN
         ExecResult(r.err, IF r.err # NoErr THEN NilConnector ELSE conn, eng, r.out,
                    <<"AddFile">>)

AddExecute(c, conn, eng, oc) ==
    IF conn = NilConnector
    THEN ExecResult(ErrNotConfigured, conn, eng, <<>>, <<>>)
    ELSE LET r == AddFile(conn, c.filePath, oc) IN
         ExecResult(r.err, conn, eng, r.out, <<"AddFile">>)

GetExecute(c, conn, eng, oc) ==
    IF conn = NilConnector
    THEN ExecResult(ErrNotConfigured, conn, eng, <<>>, <<>>)
    ELSE LET r == GetFile(conn, c.cid, c.outputPath, oc) IN
         ExecResult(r.err, conn, eng, r.out, <<"GetFile">>)

\* Command.Execute, dispatched on the dynamic type
Execute(c, conn, eng, oc) ==
    CASE c.type = "config" -> ConfigExecute(c, conn, eng, oc)
      [] c.type = "add"    -> AddExecute(c, conn, eng, oc)
      [] c.type = "get"    -> GetExecute(c, conn, eng, oc)

(***************************************************************************)
(* The Invoker.                                                            *)
(***************************************************************************)
NewInvoker == [command |-> NilCommand]

\* variant: a pending command is kept and the new one dropped
SetCommand_KeepsPending(i, c) ==
    IF i.command = NilCommand THEN [i EXCEPT !.command = c] ELSE i

SetCommand(i, c) == [i EXCEPT !.command = c]

\* variant: nothing pending is a success that does nothing
ExecuteCommand_NilIsSuccess(i, conn, eng, oc) ==
    IF i.command = NilCommand
    THEN [res |-> ExecResult(NoErr, conn, eng, <<>>, <<>>), executed |-> NilCommand]
    ELSE [res |-> Execute(i.command, conn, eng, oc), executed |-> i.command]

\* the result of Execute, and the command that ran
ExecuteCommand(i, conn, eng, oc) ==
    IF i.command = NilCommand
    THEN [res |-> ExecResult(ErrCommandNotSet, conn, eng, <<>>, <<>>),
          executed |-> NilCommand]
    ELSE [res |-> Execute(i.command, conn, eng, oc), executed |-> i.command]

(***************************************************************************)
(* handleIpfsCommand.  ipfsCommand is the token slice; Go's ipfsCommand[k]  *)
(* is ipfsCommand[k + 1] here, and indexing at or past its length panics.  *)
(***************************************************************************)
InRange(ipfsCommand, k) == k < Len(ipfsCommand)

HandleResult(panic, e, conn, inv, eng, out, exec, set, ops) ==
    [panic |-> panic, err |-> e, connector |-> conn, invoker |-> inv, engine |-> eng,
     out |-> out, executed |-> exec, set |-> set, ops |-> ops]

\* a runtime panic: nothing was assigned, the goroutine unwinds
Panic(conn, inv, eng) ==
    HandleResult(TRUE, NoErr, conn, inv, eng, <<>>, NilCommand, <<>>, <<>>)

\* return <error> before any command is built
ReturnErr(e, conn, inv, eng) ==
    HandleResult(FALSE, e, conn, inv, eng, <<>>, NilCommand, <<>>, <<>>)

\* variant: the command is built but ExecuteCommand runs without SetCommand
SetAndExecute_SkipsSet(c, conn, inv, eng, oc) ==
    LET x == ExecuteCommand(inv, conn, eng, oc)
    IN  HandleResult(FALSE, x.res.err, x.res.connector, inv, x.res.engine, x.res.out,
                     x.executed, <<>>, x.res.ops)

\* invoker.SetCommand(c) and then return invoker.ExecuteCommand(ctx)
SetAndExecute(c, conn, inv, eng, oc) ==
    LET i2 == SetCommand(inv, c)
        x  == ExecuteCommand(i2, conn, eng, oc)
    IN  HandleResult(FALSE, x.res.err, x.res.connector, i2, x.res.engine, x.res.out,
                     x.executed, <<c>>, x.res.ops)

handleConfig(ipfsCommand, conn, inv, eng, oc) ==
    IF ~InRange(ipfsCommand, 1) THEN Panic(conn, inv, eng)
    ELSE SetAndExecute(IpfsConfigCommand(ipfsCommand[2]), conn, inv, eng, oc)

\* variant: the readiness check of the add case is left to the command
handleAdd_NoReadinessCheck(ipfsCommand, conn, inv, eng, oc) ==
    IF ~InRange(ipfsCommand, 1) THEN Panic(conn, inv, eng)
    ELSE SetAndExecute(IpfsAddCommand(ipfsCommand[2]), conn, inv, eng, oc)

handleAdd(ipfsCommand, conn, inv, eng, oc) ==
    IF conn = NilConnector THEN ReturnErr(ErrNotConfigured, conn, inv, eng)
    ELSE IF ~InRange(ipfsCommand, 1) THEN Panic(conn, inv, eng)
    ELSE SetAndExecute(IpfsAddCommand(ipfsCommand[2]), conn, inv, eng, oc)

handleGet(ipfsCommand, conn, inv, eng, oc) ==
    IF conn = NilConnector THEN ReturnErr(ErrNotConfigured, conn, inv, eng)
    ELSE IF ~InRange(ipfsCommand, 1) \/ ~InRange(ipfsCommand, 2) THEN Panic(conn, inv, eng)
    ELSE SetAndExecute(IpfsGetCommand(ipfsCommand[2], ipfsCommand[3]), conn, inv, eng, oc)

\* variant: the default case does not return and falls to ExecuteCommand
handleDefault_RunsPending(cmd, conn, inv, eng) ==
    LET x == ExecuteCommand(inv, conn, eng, Outcome("none"))
    IN  HandleResult(FALSE, x.res.err, x.res.connector, inv, x.res.engine,
                     <<Msg("stdout", <<"invalid command: ">> \o cmd \o <<"\n">>)>>
                         \o x.res.out,
                     x.executed, <<>>, x.res.ops)

\* variant: the message echoes the tokens, not the line as typed
handleDefault_EchoesTokens(cmd, conn, inv, eng) ==
    HandleResult(FALSE, NoErr, conn, inv, eng,
                 <<Msg("stdout", <<"invalid command: ">> \o Join(Fields(cmd)) \o <<"\n">>)>>,
                 NilCommand, <<>>, <<>>)

handleDefault(cmd, conn, inv, eng) ==
    HandleResult(FALSE, NoErr, conn, inv, eng,
                 <<Msg("stdout", <<"invalid command: ">> \o cmd \o <<"\n">>)>>,
                 NilCommand, <<>>, <<>>)

handleIpfsCommand(cmd, conn, inv, eng, oc) ==
    LET ipfsCommand == Fields(cmd) IN
    IF ~InRange(ipfsCommand, 0) THEN Panic(conn, inv, eng)
    ELSE IF ipfsCommand[1] = sConfig THEN handleConfig(ipfsCommand, conn, inv, eng, oc)
    ELSE IF ipfsCommand[1] = sAdd THEN handleAdd(ipfsCommand, conn, inv, eng, oc)
    ELSE IF ipfsCommand[1] = sGet THEN handleGet(ipfsCommand, conn, inv, eng, oc)
    ELSE handleDefault(cmd, conn, inv, eng)

\* the command type a line selects, which decides the engine calls it can reach
LineType(cmd) ==
    LET f == Fields(cmd) IN
    IF f = <<>> THEN "none"
    ELSE IF f[1] = sConfig THEN "config"
    ELSE IF f[1] = sAdd THEN "add"
    ELSE IF f[1] = sGet THEN "get"
    ELSE "none"

(***************************************************************************)
(* main.                                                                   *)
(***************************************************************************)
PromptMsg == Msg("stdout", <<"goshare> ">>)

HelpText ==
    <<Msg("stdout", <<"Available commands:", "\n">>),
      Msg("stdout", <<" - config <repository>", "\n">>),
      Msg("stdout", <<" - add <file-path>", "\n">>),
      Msg("stdout", <<" - get <cid> <output-path>", "\n">>),
      Msg("stdout", <<" - exit", "\n">>)>>

Farewell == Msg("stdout", <<"Exiting the app. Goodbye!", "\n">>)

PanicMsg == Msg("stderr", <<"panic: runtime error: index out of range">>)

Init ==
    /\ pc = "Prompting"
    /\ command = <<>>
    /\ eof = FALSE
    /\ exitCode = -1
    /\ connector = NilConnector
    /\ invoker = NewInvoker
    /\ engine = NewEngine
    /\ err = NoErr
    /\ output = <<PromptMsg>>
    /\ executed = NilCommand
    /\ setLog = <<>>
    /\ engineOps = <<>>

\* scanner.Scan() reads a line; command := scanner.Text()
ReadLine ==
    /\ pc = "Prompting"
    /\ ~eof
    /\ \E line \in Lines : command' = line
    /\ pc' = "Dispatching"
    /\ UNCHANGED <<eof, exitCode, connector, invoker, engine, err, output, executed,
                   setLog, engineOps>>

\* scanner.Scan() returns false at end of input and scanner.Text() is then ""
ReadEOF ==
    /\ pc = "Prompting"
    /\ eof' = TRUE
    /\ command' = <<>>
    /\ pc' = "Dispatching"
    /\ UNCHANGED <<exitCode, connector, invoker, engine, err, output, executed,
                   setLog, engineOps>>

\* variant: no case for "help", the line falls to the default case
Help_ViaDispatcher ==
    /\ pc = "Dispatching"
    /\ command = sHelp
    /\ LET r == handleIpfsCommand(command, connector, invoker, engine, Outcome("none")) IN
       output' = output \o r.out
    /\ pc' = "Reporting"
    /\ UNCHANGED <<command, eof, exitCode, connector, invoker, engine, err, executed,
                   setLog, engineOps>>

\* case "help"
Help ==
    /\ pc = "Dispatching"
    /\ command = sHelp
    /\ output' = output \o HelpText
    /\ pc' = "Reporting"
    /\ UNCHANGED <<command, eof, exitCode, connector, invoker, engine, err, executed,
                   setLog, engineOps>>

\* case "exit"
Exit ==
    /\ pc = "Dispatching"
    /\ command = sExit
    /\ output' = Append(output, Farewell)
    /\ exitCode' = 0
    /\ pc' = "Exited"
    /\ UNCHANGED <<command, eof, connector, invoker, engine, err, executed, setLog,
                   engineOps>>

\* default: err := handleIpfsCommand(...); if err != nil { color.Red(err.Error()) }
HandleCommand ==
    /\ pc = "Dispatching"
    /\ command \notin {sHelp, sExit}
    /\ \E oc \in Outcomes(LineType(command)) :
         LET r == handleIpfsCommand(command, connector, invoker, engine, oc) IN
         /\ r.engine.nodes <= MaxNodes
         /\ connector' = r.connector
         /\ invoker' = r.invoker
         /\ engine' = r.engine
         /\ executed' = r.executed
         /\ setLog' = r.set
         /\ engineOps' = r.ops
         /\ IF r.panic
            THEN /\ pc' = "Crashed"
                 /\ exitCode' = 2
                 /\ err' = err
                 /\ output' = Append(output, PanicMsg)
            ELSE /\ pc' = "Reporting"
                 /\ exitCode' = exitCode
                 /\ err' = r.err
                 /\ output' = output \o r.out \o
                        (IF r.err # NoErr THEN <<Msg("red", <<r.err>>)>> ELSE <<>>)
    /\ UNCHANGED <<command, eof>>

\* the for loop comes round: the locals of the iteration are gone, the prompt is printed
Loop ==
    /\ pc = "Reporting"
    /\ pc' = "Prompting"
    /\ command' = <<>>
    /\ err' = NoErr
    /\ output' = <<PromptMsg>>
    /\ executed' = NilCommand
    /\ setLog' = <<>>
    /\ engineOps' = <<>>
    /\ UNCHANGED <<eof, exitCode, connector, invoker, engine>>

Next == ReadLine \/ ReadEOF \/ Help \/ Exit \/ HandleCommand \/ Loop

Spec == Init /\ [][Next]_vars

(***************************************************************************)
(* The Invoker on its own: a caller that holds an Invoker and a connector  *)
(* handle and calls SetCommand and ExecuteCommand in any order.            *)
(***************************************************************************)
InitInvoker ==
    /\ pc = "Fresh"
    /\ command = <<>>
    /\ eof = FALSE
    /\ exitCode = -1
    /\ connector = NilConnector
    /\ invoker = NewInvoker
    /\ engine = NewEngine
    /\ err = NoErr
    /\ output = <<>>
    /\ executed = NilCommand
    /\ setLog = <<>>
    /\ engineOps = <<>>

InvokerSetCommand ==
    /\ pc \in {"Fresh", "AfterSetCommand", "AfterExecuteCommand"}
    /\ \E c \in Commands :
         /\ invoker' = SetCommand(invoker, c)
         /\ setLog' = IF pc = "AfterSetCommand" THEN Append(setLog, c) ELSE <<c>>
    /\ Len(setLog') <= MaxSets
    /\ pc' = "AfterSetCommand"
    /\ UNCHANGED <<command, eof, exitCode, connector, engine, err, output, executed,
                   engineOps>>

InvokerExecuteCommand ==
    /\ pc \in {"Fresh", "AfterSetCommand", "AfterExecuteCommand"}
    /\ \E oc \in Outcomes(invoker.command.type) :
         LET x == ExecuteCommand(invoker, connector, engine, oc) IN
         /\ x.res.engine.nodes <= MaxNodes
         /\ err' = x.res.err
         /\ connector' = x.res.connector
         /\ engine' = x.res.engine
         /\ output' = x.res.out
         /\ engineOps' = x.res.ops
         /\ executed' = x.executed
    /\ pc' = "AfterExecuteCommand"
    /\ UNCHANGED <<command, eof, exitCode, invoker, setLog>>

NextInvoker == InvokerSetCommand \/ InvokerExecuteCommand

SpecInvoker == InitInvoker /\ [][NextInvoker]_vars

(***************************************************************************)
(* Properties.                                                             *)
(***************************************************************************)
FirstToken(cmd) == Fields(cmd)[1]

\* argument tokens after the verb
ArgCount(cmd) == Len(Fields(cmd)) - 1

\* argument tokens the verb of the line requires
Required(cmd) == IF LineType(cmd) = "get" THEN 2 ELSE 1

Running == pc \in {"Prompting", "Dispatching", "Reporting"}

\* C1: an empty or whitespace-only line goes back to the prompt: the process
\* does not crash, nothing is set or executed, and the connector handle and
\* the Invoker stay as they were.
C1_EmptyLineReprompts ==
    [][(pc = "Dispatching" /\ Fields(command) = <<>>)
        => /\ pc' = "Reporting"
           /\ connector' = connector
           /\ invoker' = invoker
           /\ executed' = NilCommand
           /\ setLog' = <<>>
           /\ engineOps' = <<>>]_vars

\* C2: a config, add or get line with fewer argument tokens than the verb
\* requires is answered with an error printed to the user, executes no command
\* and leaves the loop running.
C2_MissingArgumentReported ==
    [][(pc = "Dispatching" /\ LineType(command) # "none"
            /\ ArgCount(command) < Required(command))
        => /\ pc' = "Reporting"
           /\ err' # NoErr
           /\ output' = Append(output, Msg("red", <<err'>>))
           /\ executed' = NilCommand
           /\ engineOps' = <<>>]_vars

\* C3: the process leaves the loop only through the exit directive: whenever
\* it is no longer running, it has exited with the line "exit".
C3_LeavesLoopOnlyByExit ==
    ~Running => (pc = "Exited" /\ command = sExit)

\* C4: an add or get line while the connector handle is not ready returns
\* "run config command first" before any command is built: the pending command
\* is not replaced, no engine operation is called, the handle is unchanged.
C4_NotConfigured ==
    [][(pc = "Dispatching" /\ LineType(command) \in {"add", "get"}
            /\ connector = NilConnector)
        => /\ pc' = "Reporting"
           /\ err' = ErrNotConfigured
           /\ output' = Append(output, Msg("red", <<ErrNotConfigured>>))
           /\ invoker' = invoker
           /\ setLog' = <<>>
           /\ executed' = NilCommand
           /\ engineOps' = <<>>
           /\ engine' = engine
           /\ connector' = connector]_vars

\* an add or get was refused as not configured while an earlier command was pending
C4_Witness ==
    /\ pc = "Reporting"
    /\ LineType(command) \in {"add", "get"}
    /\ connector = NilConnector
    /\ err = ErrNotConfigured
    /\ invoker.command # NilCommand

\* C5: readiness is monotone: a connector handle that is ready stays ready in
\* every later step, whatever the step is.
C5_ReadinessMonotone ==
    [][connector # NilConnector => connector' # NilConnector]_vars

\* a config failed after an earlier one had succeeded, and the handle is still ready
C5_Witness ==
    /\ pc = "Reporting"
    /\ LineType(command) = "config"
    /\ executed # NilCommand
    /\ err # NoErr
    /\ connector # NilConnector

\* C6: the session of the connector handle changes only in a step that
\* executes a config command successfully.
C6_SessionChangesOnlyOnConfigSuccess ==
    [][connector' # connector
        => /\ pc = "Dispatching"
           /\ pc' = "Reporting"
           /\ executed'.type = "config"
           /\ err' = NoErr
           /\ engineOps' = <<"CreateNode">>]_vars

\* a config succeeded and stored a session whose node is not the first one built
C6_Witness ==
    /\ pc = "Reporting"
    /\ executed.type = "config"
    /\ err = NoErr
    /\ connector # NilConnector
    /\ connector.Node > 1

\* C7: SetCommand replaces the pending command unconditionally, and
\* ExecuteCommand runs the command set last: the Invoker holds exactly the last
\* command handed to SetCommand, and that is the one an ExecuteCommand ran.
C7_LastWriteWins ==
    /\ setLog # <<>> => invoker.command = setLog[Len(setLog)]
    /\ (pc = "AfterExecuteCommand" /\ setLog # <<>>) => executed = setLog[Len(setLog)]

\* two different commands were set in a row and the second one ran
C7_Witness ==
    /\ pc = "AfterExecuteCommand"
    /\ Len(setLog) >= 2
    /\ setLog[Len(setLog)] # setLog[Len(setLog) - 1]
    /\ executed = setLog[Len(setLog)]

\* C8: ExecuteCommand on an Invoker with nothing set returns "command not set":
\* nothing runs, no engine operation is called, and the connector handle, the
\* engine and the Invoker are unchanged.
C8_NoCommandSet ==
    [][(pc' = "AfterExecuteCommand" /\ invoker.command = NilCommand)
        => /\ err' = ErrCommandNotSet
           /\ executed' = NilCommand
           /\ engineOps' = <<>>
           /\ output' = <<>>
           /\ connector' = connector
           /\ engine' = engine
           /\ invoker' = invoker]_vars

\* ExecuteCommand was called on a fresh Invoker
C8_Witness ==
    /\ pc = "AfterExecuteCommand"
    /\ invoker.command = NilCommand
    /\ setLog = <<>>
    /\ err = ErrCommandNotSet

\* C9: a line with a first token other than config, add and get, and which is
\* not the help or exit directive, prints "invalid command: " followed by the
\* line as typed, returns no error, executes nothing and leaves the connector
\* handle and the pending command unchanged.
C9_InvalidCommand ==
    [][(pc = "Dispatching" /\ Fields(command) # <<>>
            /\ FirstToken(command) \notin {sConfig, sAdd, sGet}
            /\ command \notin {sHelp, sExit})
        => /\ pc' = "Reporting"
           /\ output' = Append(output,
                  Msg("stdout", <<"invalid command: ">> \o command \o <<"\n">>))
           /\ err' = NoErr
           /\ executed' = NilCommand
           /\ setLog' = <<>>
           /\ engineOps' = <<>>
           /\ connector' = connector
           /\ invoker' = invoker]_vars

\* "help" typed with whitespace around it was answered as an invalid command
\* while a command of an earlier line was pending
C9_Witness ==
    /\ pc = "Reporting"
    /\ Fields(command) # <<>>
    /\ FirstToken(command) = sHelp
    /\ command # sHelp
    /\ invoker.command # NilCommand
    /\ connector # NilConnector
    /\ output = <<PromptMsg, Msg("stdout", <<"invalid command: ">> \o command \o <<"\n">>)>>

\* C10: argument counts are exact: a command is built and executed only for a
\* line with exactly the number of argument tokens its verb requires.
C10_ExactArgumentCounts ==
    (pc = "Reporting" /\ (setLog # <<>> \/ executed # NilCommand))
        => ArgCount(command) = Required(command)

\* a success report was printed in this iteration
SuccessReported == \E i \in 1..Len(output) : output[i].kind = "green"

\* C11: every command that executed successfully is reported to the user
\* before the next prompt: a config, an add and a get alike.
C11_SuccessIsReported ==
    (pc = "Reporting" /\ executed # NilCommand /\ err = NoErr) => SuccessReported

\* C12: a get whose content identifier does not decode ends in the decode
\* error, printed to the user, and prints no success report.
C12_DecodeFailureSurfaced ==
    (pc = "Reporting" /\ executed.type = "get" /\ Decode(executed.cid).err # NoErr)
        => /\ err = Decode(executed.cid).err
           /\ output = <<PromptMsg, Msg("red", <<err>>)>>
           /\ ~SuccessReported

\* C13: the help and exit directives never reach the dispatcher or the
\* Invoker: nothing is set or executed, no engine operation is called, the
\* connector handle and the pending command are unchanged; help prints the
\* command list and returns to the prompt, exit prints the farewell and ends
\* the process with status 0.
C13_HelpAndExitStayInLoop ==
    [][(pc = "Dispatching" /\ command \in {sHelp, sExit})
        => /\ connector' = connector
           /\ invoker' = invoker
           /\ engine' = engine
           /\ setLog' = <<>>
           /\ executed' = NilCommand
           /\ engineOps' = <<>>
           /\ err' = NoErr
           /\ IF command = sHelp
              THEN pc' = "Reporting" /\ exitCode' = -1 /\ output' = output \o HelpText
              ELSE pc' = "Exited" /\ exitCode' = 0 /\ output' = Append(output, Farewell)]_vars

\* the process exited on "exit" with a session stored and a command still pending
C13_Witness ==
    /\ pc = "Exited"
    /\ command = sExit
    /\ exitCode = 0
    /\ output = <<PromptMsg, Farewell>>
    /\ connector # NilConnector
    /\ invoker.command # NilCommand

\* C14: plugin loading is guarded by a flag set at the first successful load:
\* a config gets past plugin loading, to the repository and the node, only
\* when the plugins have been loaded in this process.
C14_ConfigProceedsOnlyWithPlugins ==
    (pc = "Reporting" /\ executed.type = "config" /\ err # ErrPlugins) => engine.plugins

\* C15: ExecuteCommand runs only after the dispatcher has set a command for the
\* same line, so "command not set" is never returned in the shell.
C15_NoCommandSetNeverReturned ==
    /\ err # ErrCommandNotSet
    /\ (executed # NilCommand \/ engineOps # <<>>) => setLog = <<executed>>

\* a line set a command and that command ran
C15_Witness ==
    /\ pc = "Reporting"
    /\ executed # NilCommand
    /\ setLog = <<executed>>
    /\ engineOps # <<>>

\* the command the tokens of a line stand for
VariantOf(cmd) ==
    LET f == Fields(cmd) IN
    CASE LineType(cmd) = "config" /\ Len(f) >= 2 -> IpfsConfigCommand(f[2])
      [] LineType(cmd) = "add" /\ Len(f) >= 2    -> IpfsAddCommand(f[2])
      [] LineType(cmd) = "get" /\ Len(f) >= 3    -> IpfsGetCommand(f[2], f[3])
      [] OTHER                                   -> NilCommand

\* what ran in this iteration was built from the tokens of this iteration's line
RunsOnlyOwnVariant ==
    /\ executed # NilCommand => (executed = VariantOf(command) /\ setLog = <<executed>>)
    /\ engineOps # <<>> => executed # NilCommand

\* C16 as stated: a variant is built from the tokens of one line, is run by
\* that line only, and the Invoker no longer holds it once it has run.
C16_ConsumedAndDiscarded ==
    /\ RunsOnlyOwnVariant
    /\ (pc = "Reporting" /\ executed # NilCommand) => invoker.command = NilCommand

\* C16 as amended: a variant is built from the tokens of one line and is run
\* by that line only; the Invoker keeps holding it after it has run, until the
\* next SetCommand, and no later line runs it again.
C16_RunOnceButKept ==
    /\ RunsOnlyOwnVariant
    /\ (pc = "Reporting" /\ executed # NilCommand) => invoker.command = executed
    /\ (pc = "Reporting" /\ VariantOf(command) = NilCommand) => executed = NilCommand

\* an unrecognized line left the command of an earlier line pending and did not run it
C16_Witness ==
    /\ pc = "Reporting"
    /\ Fields(command) # <<>>
    /\ LineType(command) = "none"
    /\ invoker.command # NilCommand
    /\ connector # NilConnector
    /\ executed = NilCommand
    /\ engineOps = <<>>

\* C17: nothing is retried: a line calls at most one engine operation; when it
\* fails, its error is printed for that line, and the step back to the prompt
\* calls no engine operation.
C17_NoRetry ==
    [][/\ Len(engineOps') <= 1
       /\ (pc' = "Reporting" /\ engineOps' # <<>> /\ err' # NoErr)
            => output' = Append(output, Msg("red", <<err'>>))
       /\ pc = "Reporting"
            => (pc' = "Prompting" /\ engine' = engine /\ connector' = connector
                /\ engineOps' = <<>>)]_vars

\* an engine operation failed once and its error was printed
C17_Witness ==
    /\ pc = "Reporting"
    /\ engineOps = <<"CreateNode">>
    /\ err = ErrBuild
    /\ output = <<PromptMsg, Msg("red", <<ErrBuild>>)>>

\* C18: every node that runs is the one the connector handle refers to, so at
\* most one node runs.
C18_OnlyReferencedNodeLive ==
    \A n \in LiveNodes(engine) : connector # NilConnector /\ connector.Node = n

====
